---------------------------- MODULE Spec2Model ----------------------------
(***************************************************************************)
(* A model of census_data_aggregator: the propagation primitives           *)
(* (approximate_sum, _proportion, _ratio, _product, _percentchange) and    *)
(* the binned estimators (approximate_median, approximate_mean).           *)
(*                                                                         *)
(* Numbers.  Python floats are modelled by exact rationals <<p, q>> with   *)
(* q > 0 in lowest terms; rounding error of the floating point arithmetic  *)
(* is not modelled.  A value that the code obtains with math.sqrt is kept  *)
(* in the form coef * sqrt(rad), or r + s * sigma for the median's margin  *)
(* of error, where sigma is the standard error and sigma^2 is rational.    *)
(* Python's None and an absent dictionary key are both written <<>>;       *)
(* every present value is a non-empty tuple or a number.                   *)
(***************************************************************************)
EXTENDS Integers, Sequences, FiniteSets, TLC

VARIABLES
    pairs,       \* the (estimate, margin) pairs passed to a primitive
    range_list,  \* the caller-owned list of bin dictionaries
    submitted,   \* range_list as it was when the latest call was made
    rng,         \* numpy's global random source: [seed, pos]
    result,      \* the outcome of the latest call
    prev,        \* the outcome of the call before it
    calls,       \* number of calls made so far
    params,      \* the arguments the caller passes with the list
    seeded       \* whether numpy.random.seed was the caller's latest step

vars == <<pairs, range_list, submitted, rng, result, prev, calls, params, seeded>>

None == <<>>

--------------------------------------------------------------------------
(* Exact rational arithmetic *)

Abs(x) == IF x < 0 THEN -x ELSE x

Sign(x) == IF x < 0 THEN -1 ELSE IF x = 0 THEN 0 ELSE 1

RECURSIVE GCD(_, _)
GCD(a, b) == IF b = 0 THEN a ELSE GCD(b, a % b)

Norm(p, q) ==
    LET g == GCD(Abs(p), Abs(q))
        s == IF q < 0 THEN -1 ELSE 1
    IN  <<(s * p) \div g, (s * q) \div g>>

R(n) == <<n, 1>>
RAdd(a, b) == Norm(a[1] * b[2] + b[1] * a[2], a[2] * b[2])
RNeg(a) == <<-a[1], a[2]>>
RSub(a, b) == RAdd(a, RNeg(b))
RMul(a, b) == Norm(a[1] * b[1], a[2] * b[2])
RIsZero(a) == a[1] = 0
RDiv(a, b) == Norm(a[1] * b[2], a[2] * b[1])     \* only used with b # 0
RLt(a, b) == a[1] * b[2] < b[1] * a[2]
RLe(a, b) == a[1] * b[2] <= b[1] * a[2]
RSign(a) == Sign(a[1])
RSq(a) == RMul(a, a)

RECURSIVE SumInts(_)
SumInts(s) == IF s = <<>> THEN 0 ELSE Head(s) + SumInts(Tail(s))

RECURSIVE MaxInts(_)
MaxInts(s) ==
    IF Len(s) = 1 THEN s[1]
    ELSE LET m == MaxInts(Tail(s)) IN IF s[1] > m THEN s[1] ELSE m

(* coef * sqrt(rad) as a pair of rationals; rad >= 0.  Kept canonical:   *)
(* a zero value is <<0, 0>>.                                             *)
Root(coef, rad) ==
    IF RIsZero(coef) \/ RIsZero(rad) THEN <<R(0), R(0)>> ELSE <<coef, rad>>

RootSign(x) == RSign(x[1])

(* the square of coef * sqrt(rad) *)
RootSq(x) == RMul(RSq(x[1]), x[2])

--------------------------------------------------------------------------
(* Outcomes of a call *)

Returned(op, args, est, moe, warned) ==
    [op |-> op, args |-> args, kind |-> "return", est |-> est, moe |-> moe,
     warnings |-> warned]

Raised(op, args, exc, warned) ==
    [op |-> op, args |-> args, kind |-> exc, est |-> None, moe |-> None,
     warnings |-> warned]

NoCall ==
    [op |-> "none", args |-> None, kind |-> "none", est |-> None, moe |-> None,
     warnings |-> {}]

--------------------------------------------------------------------------
(* Propagation primitives *)

(* approximate_sum: the list comprehensions of lines 43-52 *)
zeros(ps) == SelectSeq(ps, LAMBDA p : p[1] = 0)

MarginsOf(ps) == [i \in 1..Len(ps) |-> ps[i][2]]

SumMarginsNoCollapse(ps) == MarginsOf(ps)

SumMargins(ps) ==
    IF Len(zeros(ps)) > 1
    THEN LET max_zero_margin == MaxInts(MarginsOf(zeros(ps)))
             not_zero_margins == MarginsOf(SelectSeq(ps, LAMBDA p : p[1] # 0))
         IN  <<max_zero_margin>> \o not_zero_margins
    ELSE MarginsOf(ps)

approximate_sum(ps) ==
    LET margins == SumMargins(ps)
        sumsq == SumInts([i \in 1..Len(margins) |-> margins[i] * margins[i]])
        total == SumInts([i \in 1..Len(ps) |-> ps[i][1]])
    IN  Returned("sum", ps, R(total), Root(R(1), R(sumsq)), {})


RootScale(c, x) == Root(RMul(c, x[1]), x[2])

(* approximate_proportion, lines 376-392 *)
ProportionRadicandOfRatio(numerator_pair, denominator_pair) ==
    LET proportion_estimate == Norm(numerator_pair[1], denominator_pair[1])
    IN  RAdd(R(numerator_pair[2] * numerator_pair[2]),
             RMul(RSq(proportion_estimate),
                  R(denominator_pair[2] * denominator_pair[2])))

ProportionRadicand(numerator_pair, denominator_pair) ==
    LET proportion_estimate == Norm(numerator_pair[1], denominator_pair[1])
    IN  RSub(R(numerator_pair[2] * numerator_pair[2]),
             RMul(RSq(proportion_estimate),
                  R(denominator_pair[2] * denominator_pair[2])))

approximate_proportion(numerator_pair, denominator_pair) ==
    LET args == <<numerator_pair, denominator_pair>> IN
    IF denominator_pair[1] = 0
    THEN Raised("proportion", args, "ZeroDivisionError", {})
    ELSE LET proportion_estimate == Norm(numerator_pair[1], denominator_pair[1])
             squared_proportion_moe ==
                 ProportionRadicand(numerator_pair, denominator_pair)
         IN  IF RLt(squared_proportion_moe, R(0))
             THEN Raised("proportion", args, "DataError", {})
             ELSE Returned("proportion", args, proportion_estimate,
                           Root(Norm(1, denominator_pair[1]),
                                squared_proportion_moe), {})

(* approximate_ratio, lines 421-432 *)
RatioRadicand(numerator_pair, denominator_pair) ==
    LET ratio_estimate == Norm(numerator_pair[1], denominator_pair[1])
    IN  RAdd(R(numerator_pair[2] * numerator_pair[2]),
             RMul(RSq(ratio_estimate),
                  R(denominator_pair[2] * denominator_pair[2])))

approximate_ratio(numerator_pair, denominator_pair) ==
    LET args == <<numerator_pair, denominator_pair>> IN
    IF denominator_pair[1] = 0
    THEN Raised("ratio", args, "ZeroDivisionError", {})
    ELSE LET ratio_estimate == Norm(numerator_pair[1], denominator_pair[1])
             squared_ratio_moe == RatioRadicand(numerator_pair, denominator_pair)
         IN  \* math.sqrt of a negative number raises ValueError
             IF RLt(squared_ratio_moe, R(0))
             THEN Raised("ratio", args, "ValueError", {})
             ELSE Returned("ratio", args, ratio_estimate,
                           Root(Norm(1, denominator_pair[1]), squared_ratio_moe),
                           {})

(* approximate_product, lines 461-472 *)
approximate_product(pair_one, pair_two) ==
    LET product_estimate == pair_one[1] * pair_two[1]
        squared_product_moe ==
            (pair_one[1] * pair_one[1]) * (pair_two[2] * pair_two[2])
            + (pair_two[1] * pair_two[1]) * (pair_one[2] * pair_one[2])
    IN  Returned("product", <<pair_one, pair_two>>, R(product_estimate),
                 Root(R(1), R(squared_product_moe)), {})

(* percent change with the ratio's pairs exchanged *)
PercentChangeOfSwappedRatio(pair_old, pair_new) ==
    LET args == <<pair_old, pair_new>> IN
    IF pair_old[1] = 0
    THEN Raised("percentchange", args, "ZeroDivisionError", {})
    ELSE LET percent_change_as_ratio == approximate_ratio(pair_old, pair_new)
         IN  IF percent_change_as_ratio.kind # "return"
             THEN Raised("percentchange", args, percent_change_as_ratio.kind, {})
             ELSE Returned("percentchange", args,
                           RMul(Norm(pair_new[1] - pair_old[1], pair_old[1]), R(100)),
                           RootScale(R(100), percent_change_as_ratio.moe), {})

(* approximate_percentchange, lines 508-520 *)
approximate_percentchange(pair_old, pair_new) ==
    LET args == <<pair_old, pair_new>> IN
    IF pair_old[1] = 0
    THEN Raised("percentchange", args, "ZeroDivisionError", {})
    ELSE LET percent_change_estimate ==
                 RMul(Norm(pair_new[1] - pair_old[1], pair_old[1]), R(100))
             percent_change_as_ratio == approximate_ratio(pair_new, pair_old)
         IN  IF percent_change_as_ratio.kind # "return"
             THEN Raised("percentchange", args, percent_change_as_ratio.kind, {})
             ELSE Returned("percentchange", args, percent_change_estimate,
                           RootScale(R(100), percent_change_as_ratio.moe), {})

--------------------------------------------------------------------------
(* Bins.  A bound ('min' or 'max') is <<tag, value>>: a number, Python's *)
(* None, or the float nan.  A bin dictionary is a record; the optional   *)
(* keys 'moe', 'n_min', 'n_max', 'n_new' are <<>> when absent and <<v>>  *)
(* when present; none_key tells whether the dictionary holds the key     *)
(* None (with value nan).                                                *)

NoneB == <<0, 0>>
Num(v) == <<1, v>>
NaNB == <<2, 0>>
IsNone(b) == b[1] = 0
IsNum(b) == b[1] = 1
IsNaN(b) == b[1] = 2

Absent == <<>>
Has(x) == x # <<>>

Bin(mn, mx, n, moe) ==
    [min |-> mn, max |-> mx, n |-> n, moe |-> moe,
     n_min |-> Absent, n_max |-> Absent, n_new |-> Absent, none_key |-> FALSE]

(* lines 135-138: for each dictionary, every value that is None makes   *)
(* the loop assign range_list[i][None] = nan.  When that adds the key   *)
(* None, the dictionary has changed size during its own iteration and   *)
(* the next step of the iteration raises RuntimeError; when the key is  *)
(* already there the assignment changes nothing.                        *)
HasNoneValue(b) == IsNone(b.min) \/ IsNone(b.max)

NoneLoopHit(list) ==
    {i \in 1..Len(list) : HasNoneValue(list[i]) /\ ~list[i].none_key}

ReplaceNone(list) ==
    IF NoneLoopHit(list) = {}
    THEN [list |-> list, ok |-> TRUE]
    ELSE LET i == CHOOSE j \in NoneLoopHit(list) :
                      \A k \in NoneLoopHit(list) : j <= k
         IN  [list |-> [list EXCEPT ![i].none_key = TRUE], ok |-> FALSE]

(* line 140, list.sort(key=lambda x: x['min']), as CPython sorts a list *)
(* of fewer than 64 items: the leading run is counted (and reversed if  *)
(* strictly descending), then the rest is inserted by binary search.    *)
(* key < key raises TypeError when either is None and is False when     *)
(* either is nan.                                                       *)
KeyErr(a, b) == IsNone(a) \/ IsNone(b)
KeyLt(a, b) == IsNum(a) /\ IsNum(b) /\ a[2] < b[2]

RECURSIVE AscRun(_, _)
AscRun(s, i) ==
    IF i = Len(s) THEN [n |-> i, ok |-> TRUE]
    ELSE IF KeyErr(s[i + 1].min, s[i].min) THEN [n |-> i, ok |-> FALSE]
    ELSE IF KeyLt(s[i + 1].min, s[i].min) THEN [n |-> i, ok |-> TRUE]
    ELSE AscRun(s, i + 1)

RECURSIVE DescRun(_, _)
DescRun(s, i) ==
    IF i = Len(s) THEN [n |-> i, ok |-> TRUE]
    ELSE IF KeyErr(s[i + 1].min, s[i].min) THEN [n |-> i, ok |-> FALSE]
    ELSE IF ~KeyLt(s[i + 1].min, s[i].min) THEN [n |-> i, ok |-> TRUE]
    ELSE DescRun(s, i + 1)

ReversePrefix(s, n) ==
    [i \in 1..Len(s) |-> IF i <= n THEN s[n + 1 - i] ELSE s[i]]

(* binary search of the place of pivot in s[l..r-1]; 0 on TypeError *)
RECURSIVE BinaryPlace(_, _, _, _)
BinaryPlace(s, pivot, l, r) ==
    IF l >= r THEN l
    ELSE LET p == l + ((r - l) \div 2) IN
         IF KeyErr(pivot.min, s[p].min) THEN 0
         ELSE IF KeyLt(pivot.min, s[p].min) THEN BinaryPlace(s, pivot, l, p)
         ELSE BinaryPlace(s, pivot, p + 1, r)

InsertAt(s, start, l) ==
    [i \in 1..Len(s) |->
        IF i < l \/ i > start THEN s[i]
        ELSE IF i = l THEN s[start] ELSE s[i - 1]]

RECURSIVE BinarySort(_, _)
BinarySort(s, start) ==
    IF start > Len(s) THEN [list |-> s, ok |-> TRUE]
    ELSE LET l == BinaryPlace(s, s[start], 1, start) IN
         IF l = 0 THEN [list |-> s, ok |-> FALSE]
         ELSE BinarySort(InsertAt(s, start, l), start + 1)

SortUnsorted(s) == [list |-> s, ok |-> TRUE]

SortByMin(s) ==
    IF Len(s) < 2 THEN [list |-> s, ok |-> TRUE]
    ELSE IF KeyErr(s[2].min, s[1].min) THEN [list |-> s, ok |-> FALSE]
    ELSE LET descending == KeyLt(s[2].min, s[1].min)
             run == IF descending THEN DescRun(s, 2) ELSE AscRun(s, 2)
         IN  IF ~run.ok THEN [list |-> s, ok |-> FALSE]
             ELSE BinarySort(IF descending THEN ReversePrefix(s, run.n) ELSE s,
                             run.n + 1)

(* lines 222-226: the running cumulative count, written into each bin *)
RECURSIVE CumulativeFrom(_, _, _)
CumulativeFrom(list, i, cumulative_n) ==
    IF i > Len(list) THEN list
    ELSE CumulativeFrom(
             [list EXCEPT ![i].n_min = <<cumulative_n>>,
                          ![i].n_max = <<cumulative_n + list[i].n>>],
             i + 1, cumulative_n + list[i].n)

AssignCumulative(list) == CumulativeFrom(list, 1, 0)

TotalN(list) == SumInts([i \in 1..Len(list) |-> list[i].n])

--------------------------------------------------------------------------
(* Numbers of the form r + s * sqrt(t2), r and s rational, for one      *)
(* rational t2 >= 0 fixed by the call: <<r, s>>.                         *)

Const(r) == <<r, R(0)>>
SAdd(x, y) == <<RAdd(x[1], y[1]), RAdd(x[2], y[2])>>
SSub(x, y) == <<RSub(x[1], y[1]), RSub(x[2], y[2])>>
SMulR(x, c) == <<RMul(x[1], c), RMul(x[2], c)>>
SDivR(x, c) == <<RDiv(x[1], c), RDiv(x[2], c)>>

(* the sign of r + s * sqrt(t2) *)
SSign(x, t2) ==
    LET r == x[1]
        s == x[2]
    IN  IF RIsZero(s) \/ RIsZero(t2) THEN RSign(r)
        ELSE IF RIsZero(r) THEN RSign(s)
        ELSE IF RSign(r) = RSign(s) THEN RSign(r)
        ELSE LET r2 == RSq(r)
                 s2t == RMul(RSq(s), t2)
             IN  IF RLt(s2t, r2) THEN RSign(r)
                 ELSE IF RLt(r2, s2t) THEN RSign(s)
                 ELSE 0

SLe(x, y, t2) == SSign(SSub(x, y), t2) <= 0

(* a value that may be nan, or a TypeError raised while computing it *)
NumV(x) == [k |-> "num", v |-> x]
NaNV == [k |-> "nan", v |-> Const(R(0))]
TypeErrorV == [k |-> "TypeError", v |-> Const(R(0))]

(* a1 + frac * (a2 - a1) for bounds a1, a2: arithmetic on None raises *)
(* TypeError, arithmetic on nan gives nan                              *)
Interpolate(frac, a1, a2) ==
    IF IsNone(a1) \/ IsNone(a2) THEN TypeErrorV
    ELSE IF IsNaN(a1) \/ IsNaN(a2) THEN NaNV
    ELSE NumV(SAdd(SMulR(frac, R(a2[2] - a1[2])), Const(R(a1[2]))))

--------------------------------------------------------------------------
(* approximate_median, the analytical path (lines 220-337) *)

(* the first bin whose cumulative range holds the point, 0 if none:  *)
(* next(d for d in range_list if p >= d['n_min'] and p <= d['n_max']) *)
InRange(d, p, t2) == SLe(Const(R(d.n_min[1])), p, t2) /\ SLe(p, Const(R(d.n_max[1])), t2)

Locate(list, p, t2) ==
    LET hits == {i \in 1..Len(list) : InRange(list[i], p, t2)}
    IN  IF hits = {} THEN 0 ELSE CHOOSE i \in hits : \A j \in hits : i <= j

(* line 277: (100 - sampling_percentage) / (n * sampling_percentage) *)
SamplingTerm(n, sampling_percentage) ==
    RDiv(RSub(R(100), sampling_percentage), RMul(R(n), sampling_percentage))

(* the bound interpolated from the far end of the bin towards its near end *)
ProbabilityBoundReversed(list, i, p, n) ==
    LET last == i = Len(list)
        a1 == list[i].min
        a2 == IF last THEN list[i].max ELSE list[i + 1].min
        c1 == Norm(list[i].n_min[1], n)
        c2 == IF last THEN Norm(list[i].n_max[1], n)
              ELSE Norm(list[i + 1].n_min[1], n)
    IN  IF RIsZero(RSub(c2, c1)) THEN [k |-> "ZeroDivisionError", v |-> Const(R(0))]
        ELSE Interpolate(SDivR(SSub(p, Const(c1)), RSub(c2, c1)), a2, a1)

(* lines 304-315 and 317-328: the value-scale bound of a probability p *)
(* that falls in bin i: a two-point interpolation towards the next     *)
(* bin's 'min' and 'n_min' (this bin's 'max' and 'n_max' when range_list*)
(* [i + 1] raises IndexError).                                          *)
ProbabilityBound(list, i, p, n) ==
    LET last == i = Len(list)
        a1 == list[i].min
        a2 == IF last THEN list[i].max ELSE list[i + 1].min
        c1 == Norm(list[i].n_min[1], n)
        c2 == IF last THEN Norm(list[i].n_max[1], n)
              ELSE Norm(list[i + 1].n_min[1], n)
    IN  IF RIsZero(RSub(c2, c1)) THEN [k |-> "ZeroDivisionError", v |-> Const(R(0))]
        ELSE Interpolate(SDivR(SSub(p, Const(c1)), RSub(c2, c1)), a1, a2)

(* lines 276-337, entered with the estimate already decided *)
MedianMargin(list, n, a, estimated_median, warned) ==
    LET Raise(exc) == Raised("median", a, exc, warned) IN
    IF n = 0 THEN Raise("ZeroDivisionError")
    ELSE
    LET t2 == SamplingTerm(n, a.sampling_percentage)
        half_df == RMul(a.design_factor, Norm(1, 2))
        standard_error == IF RIsZero(t2) THEN Const(R(0)) ELSE <<R(0), half_df>>
        p_lower == SSub(Const(Norm(1, 2)), standard_error)
        p_upper == SAdd(Const(Norm(1, 2)), standard_error)
        p_lower_n == SMulR(p_lower, R(n))
        p_upper_n == SMulR(p_upper, R(n))
        p_lower_range_i == Locate(list, p_lower_n, t2)
        p_upper_range_i == Locate(list, p_upper_n, t2)
    IN  IF RLt(t2, R(0)) THEN Raise("ValueError")
        ELSE IF p_lower_range_i = 0 THEN Raise("DataError")
        ELSE IF p_upper_range_i = 0 THEN Raise("DataError")
        ELSE
        LET lower_bound == ProbabilityBound(list, p_lower_range_i, p_lower, n)
            upper_bound == ProbabilityBound(list, p_upper_range_i, p_upper, n)
        IN  IF lower_bound.k \in {"ZeroDivisionError", "TypeError"}
            THEN Raise(lower_bound.k)
            ELSE IF upper_bound.k \in {"ZeroDivisionError", "TypeError"}
            THEN Raise(upper_bound.k)
            ELSE IF lower_bound.k = "nan" \/ upper_bound.k = "nan"
            THEN Returned("median", a, estimated_median, None, warned)
            ELSE LET standard_error_median ==
                         SMulR(SSub(upper_bound.v, lower_bound.v), Norm(1, 2))
                     margin_of_error == SMulR(standard_error_median, Norm(329, 200))
                 IN  Returned("median", a, estimated_median, margin_of_error,
                              warned)

(* the behaviour in which the default design factor suppresses the margin *)
MedianAdvisingDefaultFactor(list, n, a, estimated_median, warned) ==
    IF ~Has(a.sampling_percentage) \/ RIsZero(a.sampling_percentage)
       \/ a.design_factor = R(1)
    THEN Returned("median", a, estimated_median, None,
                  warned \cup {"SamplingPercentageWarning"})
    ELSE MedianMargin(list, n, a, estimated_median, warned)

(* lines 270-274, then the margin of error *)
MedianAfterEstimate(list, n, a, estimated_median, warned) ==
    IF ~Has(a.sampling_percentage) \/ RIsZero(a.sampling_percentage)
    THEN Returned("median", a, estimated_median, None,
                  warned \cup {"SamplingPercentageWarning"})
    ELSE MedianMargin(list, n, a, estimated_median, warned)

(* lines 237-247: the interpolated median of the midpoint's bin M *)
InterpolateMedianFromMax(M, n_midpoint) ==
    Interpolate(Const(RDiv(RSub(n_midpoint, R(M.n_min[1])), R(M.n))), M.max, M.min)

InterpolateMedian(M, n_midpoint) ==
    Interpolate(Const(RDiv(RSub(n_midpoint, R(M.n_min[1])), R(M.n))), M.min, M.max)

(* lines 228-268, on the sorted list with its cumulative ranges *)
MedianAnalytical(list, a) ==
    LET Raise(exc, warned) == Raised("median", a, exc, warned)
        n == TotalN(list)
        n_midpoint == Norm(n, 2)
        mi == Locate(list, Const(n_midpoint), R(0))
    IN  IF mi = 0 THEN Raise("StopIteration", {})
        ELSE
        LET M == list[mi] IN
        IF M.n = 0 THEN Raise("ZeroDivisionError", {})
        ELSE
        LET interpolated == InterpolateMedian(M, n_midpoint)
            no_jam == a.jam_values = <<>>
        IN  IF interpolated.k = "TypeError" THEN Raise("TypeError", {})
            ELSE IF no_jam /\ IsNaN(M.max)
            THEN Returned("median", a, None, None, {"JamValueMissingWarning"})
            ELSE IF no_jam /\ IsNaN(M.min)
            THEN Returned("median", a, None, None, {"JamValueMissingWarning"})
            ELSE IF IsNaN(M.max)
            THEN IF Len(a.jam_values) < 2
                 THEN Raise("InputError", {"JamValueResultWarning"})
                 ELSE MedianAfterEstimate(list, n, a, R(a.jam_values[2]),
                                          {"JamValueResultWarning"})
            ELSE IF IsNaN(M.min)
            THEN MedianAfterEstimate(list, n, a, R(a.jam_values[1]),
                                     {"JamValueResultWarning"})
            ELSE MedianAfterEstimate(list, n, a, interpolated.v[1], {})

--------------------------------------------------------------------------
(* The random source.  numpy's generator is a deterministic function of *)
(* its seed and of the number of values drawn since seeding; Stream is  *)
(* a fixed function standing for it.  A standard normal draw is one of  *)
(* ZValues, a uniform draw on [0, 1) one of UValues.                    *)

ZValues == <<-2, 1, 0, -1, 2>>
UValues == <<R(0), <<1, 2>>, <<1, 4>>, <<3, 4>>, <<1, 2>>>>

Stream(seed, pos) == (seed * seed + 3 * pos * seed + pos * pos) % Len(ZValues)

Draw(g) == Stream(g.seed, g.pos) + 1
Advance(g, k) == [g EXCEPT !.pos = g.pos + k]

(* round(): to the nearest integer, a tie to the even one *)
Round(x) ==
    LET f == x[1] \div x[2]
        twice == 2 * (x[1] - f * x[2])
    IN  IF twice < x[2] THEN f
        ELSE IF twice > x[2] THEN f + 1
        ELSE IF f % 2 = 0 THEN f ELSE f + 1

(* lines 150-152 and 598-600: se = moe / 1.645;                        *)
(* nn = int(round(numpy.random.normal(n, se)))                          *)
PerturbedCount(range_, g) ==
    LET se == RDiv(R(range_.moe[1]), Norm(329, 200))
    IN  Round(RAdd(R(range_.n), RMul(R(ZValues[Draw(g)]), se)))

--------------------------------------------------------------------------
(* Aggregation of replicate outcomes: numpy.mean and numpy.quantile     *)
(* (linear interpolation between the order statistics).                 *)

RECURSIVE SumR(_)
SumR(xs) == IF xs = <<>> THEN R(0) ELSE RAdd(Head(xs), SumR(Tail(xs)))

RECURSIVE InsertR(_, _)
InsertR(x, sorted) ==
    IF sorted = <<>> THEN <<x>>
    ELSE IF RLe(x, Head(sorted)) THEN <<x>> \o sorted
    ELSE <<Head(sorted)>> \o InsertR(x, Tail(sorted))

RECURSIVE SortR(_)
SortR(xs) == IF xs = <<>> THEN <<>> ELSE InsertR(Head(xs), SortR(Tail(xs)))

MeanR(xs) == RDiv(SumR(xs), R(Len(xs)))

Quantile(xs, q) ==
    LET sorted == SortR(xs)
        h == RMul(R(Len(xs) - 1), q)
        lo == h[1] \div h[2]
        frac == RSub(h, R(lo))
    IN  IF lo + 1 >= Len(xs) THEN sorted[Len(xs)]
        ELSE RAdd(sorted[lo + 1], RMul(frac, RSub(sorted[lo + 2], sorted[lo + 1])))

RMax(x, y) == IF RLt(x, y) THEN y ELSE x

(* the right-hand spread alone *)
SpreadRightOnly(xs) ==
    RSub(Quantile(xs, Norm(95, 100)), MeanR(xs))

(* lines 215-218 and 623-626 *)
Spread(xs) ==
    LET estimate == MeanR(xs)
        t1 == RSub(Quantile(xs, Norm(95, 100)), estimate)
        t2 == RSub(estimate, Quantile(xs, Norm(5, 100)))
    IN  RMax(t1, t2)

--------------------------------------------------------------------------
(* approximate_median, the simulation path (lines 142-218) *)

(* lines 147-156: one replicate's perturbed counts, written into the bins *)
RECURSIVE PerturbFrom(_, _, _, _)
PerturbFrom(list, i, cumulative_n, g) ==
    IF i > Len(list) THEN [list |-> list, rng |-> g]
    ELSE LET nn == PerturbedCount(list[i], g)
         IN  PerturbFrom(
                 [list EXCEPT ![i].n_min = <<cumulative_n>>,
                              ![i].n_max = <<cumulative_n + nn>>,
                              ![i].n_new = <<nn>>],
                 i + 1, cumulative_n + nn, Advance(g, 1))

(* lines 158-199: the outcome one replicate appends, or what it raises *)
ReplicateValue(x) == [k |-> "value", v |-> x]
ReplicateNaN == [k |-> "nan", v |-> R(0)]
ReplicateRaise(exc) == [k |-> exc, v |-> R(0)]

ReplicateOutcome(list, a) ==
    LET n == TotalN(list)
        n_midpoint == Norm(n, 2)
        mi == Locate(list, Const(n_midpoint), R(0))
    IN  IF mi = 0 THEN ReplicateRaise("StopIteration")
        ELSE
        LET M == list[mi] IN
        IF M.n_new[1] = 0 THEN ReplicateRaise("ZeroDivisionError")
        ELSE
        LET interpolated ==
                Interpolate(
                    Const(RDiv(RSub(n_midpoint, R(M.n_min[1])), R(M.n_new[1]))),
                    M.min, M.max)
            no_jam == a.jam_values = <<>>
        IN  IF interpolated.k = "TypeError" THEN ReplicateRaise("TypeError")
            ELSE IF IsNaN(M.max) /\ no_jam THEN ReplicateNaN
            ELSE IF IsNaN(M.min) /\ no_jam THEN ReplicateNaN
            ELSE IF IsNaN(M.max)
            THEN IF Len(a.jam_values) < 2 THEN ReplicateRaise("IndexError")
                 ELSE ReplicateValue(R(a.jam_values[2]))
            ELSE IF IsNaN(M.min) THEN ReplicateValue(R(a.jam_values[1]))
            ELSE ReplicateValue(interpolated.v[1])

(* the loop of line 144: replicates i..simulations *)
RECURSIVE Replicates(_, _, _, _, _)
Replicates(list, a, g, i, simulation_results) ==
    IF i > a.simulations
    THEN [list |-> list, rng |-> g, results |-> simulation_results, exc |-> "none"]
    ELSE LET perturbed == PerturbFrom(list, 1, 0, g)
             outcome == ReplicateOutcome(perturbed.list, a)
         IN  IF outcome.k \notin {"value", "nan"}
             THEN [list |-> perturbed.list, rng |-> perturbed.rng,
                   results |-> simulation_results, exc |-> outcome.k]
             ELSE Replicates(perturbed.list, a, perturbed.rng, i + 1,
                             Append(simulation_results, outcome))

Values(simulation_results) ==
    [i \in 1..Len(simulation_results) |-> simulation_results[i].v]

Holds(simulation_results, x) ==
    \E i \in 1..Len(simulation_results) :
        simulation_results[i].k = "value" /\ simulation_results[i].v = R(x)

(* aggregation that averages the numeric outcomes and skips the others *)
AggregateSkippingUndefined(simulation_results, a) ==
    IF \A i \in 1..Len(simulation_results) : simulation_results[i].k = "nan"
    THEN Returned("median", a, None, None, {"JamValueMissingWarning"})
    ELSE Returned("median", a,
                  MeanR(Values(SelectSeq(simulation_results,
                                         LAMBDA o : o.k = "value"))),
                  Const(Spread(Values(SelectSeq(simulation_results,
                                                LAMBDA o : o.k = "value")))),
                  {})

(* lines 200-218 *)
AggregateMedian(simulation_results, a) ==
    LET jam == a.jam_values IN
    IF \E i \in 1..Len(simulation_results) : simulation_results[i].k = "nan"
    THEN Returned("median", a, None, None, {"JamValueMissingWarning"})
    ELSE IF jam # <<>> /\ Holds(simulation_results, jam[1])
    THEN Returned("median", a, None, None, {"JamValueResultMOEWarning"})
    ELSE IF jam # <<>> /\ Len(jam) < 2
    THEN Raised("median", a, "IndexError", {})
    ELSE IF jam # <<>> /\ Holds(simulation_results, jam[2])
    THEN Returned("median", a, None, None, {"JamValueResultMOEWarning"})
    ELSE Returned("median", a, MeanR(Values(simulation_results)),
                  Const(Spread(Values(simulation_results))), {})

(* lines 200-218 after the loop, or the exception that ended the loop *)
MedianSimulationResult(run, a) ==
    [list |-> run.list, rng |-> run.rng,
     out |-> IF run.exc # "none" THEN Raised("median", a, run.exc, {})
             ELSE AggregateMedian(run.results, a)]

MedianSimulation(list, a, g) ==
    MedianSimulationResult(Replicates(list, a, g, 1, <<>>), a)

--------------------------------------------------------------------------
(* approximate_median (lines 64-340): what the call leaves in the       *)
(* caller's list, in the random source, and its outcome                 *)

(* lines 220-340 *)
MedianAnalyticalPath(list, a, g) ==
    [list |-> list, rng |-> g, out |-> MedianAnalytical(list, a)]

(* line 142: the simulation path is taken when the first bin has 'moe' *)
MedianAfterSort(sorted, a, g) ==
    IF ~sorted.ok
    THEN [list |-> sorted.list, rng |-> g,
          out |-> Raised("median", a, "TypeError", {})]
    ELSE IF Has(sorted.list[1].moe)
    THEN MedianSimulation(sorted.list, a, g)
    ELSE MedianAnalyticalPath(AssignCumulative(sorted.list), a, g)

(* line 140 *)
MedianAfterNoneLoop(replaced, a, g) ==
    IF ~replaced.ok
    THEN [list |-> replaced.list, rng |-> g,
          out |-> Raised("median", a, "RuntimeError", {})]
    ELSE MedianAfterSort(SortByMin(replaced.list), a, g)

approximate_median(range_list0, a, g) ==
    MedianAfterNoneLoop(ReplaceNone(range_list0), a, g)

--------------------------------------------------------------------------
(* approximate_mean (lines 523-629) *)

NaNR == <<0, 0>>
IsNaNR(x) == x[2] = 0

(* line 590: alpha_hat = (log(nb1 + nb) - log(nb)) / (log(lb) - log(lb1)). *)
(* numpy.log(0) is -inf and the float division never raises, so alpha_hat *)
(* is nan, +inf, zero or a positive number; numpy.log(None) raises        *)
(* TypeError.  A positive alpha_hat is kept as the rational               *)
(* (nb1 / nb) / ((lb - lb1) / lb1), which has the same monotonicity.      *)
AlphaHat(list) ==
    LET k == Len(list)
        nb1 == list[k - 1].n
        nb == list[k].n
        lb1 == list[k - 1].min
        lb == list[k].min
        numerator == IF nb = 0 THEN (IF nb1 = 0 THEN "nan" ELSE "inf")
                     ELSE IF nb1 = 0 THEN "zero" ELSE "pos"
        denominator == IF IsNaN(lb) \/ IsNaN(lb1) THEN "nan"
                       ELSE IF lb1[2] = 0 THEN "inf" ELSE "pos"
    IN  IF IsNone(lb) \/ IsNone(lb1) THEN [k |-> "TypeError", v |-> R(0)]
        ELSE IF numerator = "nan" \/ denominator = "nan" THEN [k |-> "nan", v |-> R(0)]
        ELSE IF numerator = "inf"
        THEN [k |-> IF denominator = "inf" THEN "nan" ELSE "inf", v |-> R(0)]
        ELSE IF numerator = "zero" \/ denominator = "inf" THEN [k |-> "zero", v |-> R(0)]
        ELSE [k |-> "pos", v |-> Norm(nb1 * lb1[2], nb * (lb[2] - lb1[2]))]

(* numpy.random.uniform(min, max, size=(1, nn)).sum(): nn draws *)
RECURSIVE UniformSum(_, _, _, _)
UniformSum(lo, hi, nn, g) ==
    IF nn = 0 THEN R(0)
    ELSE RAdd(RAdd(R(lo), RMul(UValues[Draw(g)], R(hi - lo))),
              UniformSum(lo, hi, nn - 1, Advance(g, 1)))

(* numpy.random.pareto(a=alpha_hat, size=(1, nn)).sum(): nn draws; the *)
(* sampler itself is numpy's and is stood for by u / alpha_hat          *)
RECURSIVE ParetoSum(_, _, _)
ParetoSum(alpha, nn, g) ==
    IF nn = 0 THEN R(0)
    ELSE RAdd(RDiv(UValues[Draw(g)], alpha), ParetoSum(alpha, nn - 1, Advance(g, 1)))

(* one bin of one replicate (lines 598-603, 606-612, 615-620):          *)
(* the perturbed count, the sum of the values drawn, the random source  *)
Clamp(nn) == IF nn < 0 THEN 0 ELSE nn

BinDraw(range_, g, clamped, alpha) ==
    LET drawn == PerturbedCount(range_, g)
        nn == IF clamped THEN Clamp(drawn) ELSE drawn
        g1 == Advance(g, 1)
    IN  IF alpha.k = "uniform"
        THEN IF IsNone(range_.min) \/ IsNone(range_.max)
             THEN [exc |-> "TypeError", nn |-> nn, sum |-> R(0), rng |-> g1]
             ELSE IF IsNaN(range_.min) \/ IsNaN(range_.max)
             THEN [exc |-> "OverflowError", nn |-> nn, sum |-> R(0), rng |-> g1]
             ELSE IF nn < 0
             THEN [exc |-> "ValueError", nn |-> nn, sum |-> R(0), rng |-> g1]
             ELSE [exc |-> "none", nn |-> nn,
                   sum |-> UniformSum(range_.min[2], range_.max[2], nn, g1),
                   rng |-> Advance(g1, nn)]
        ELSE IF alpha.k = "zero"
        THEN [exc |-> "ValueError", nn |-> nn, sum |-> R(0), rng |-> g1]
        ELSE [exc |-> "none", nn |-> nn,
              sum |-> IF nn = 0 \/ alpha.k = "inf" THEN R(0)
                      ELSE IF alpha.k = "nan" THEN NaNR
                      ELSE ParetoSum(alpha.v, nn, g1),
              rng |-> Advance(g1, nn)]

Uniform == [k |-> "uniform", v |-> R(0)]

(* lines 594-621: the bins of one replicate from bin i on *)
RECURSIVE MeanReplicateFrom(_, _, _, _, _, _)
MeanReplicateFrom(list, alpha, i, g, values, count) ==
    IF i > Len(list)
    THEN [exc |-> "none", rng |-> g,
          mean |-> IF IsNaNR(values) \/ count = 0 THEN NaNR
                   ELSE RDiv(values, R(count))]
    ELSE LET last == i = Len(list)
             d == BinDraw(list[i], g, ~last \/ alpha.k # "uniform",
                          IF last THEN alpha ELSE Uniform)
         IN  IF d.exc # "none" THEN [exc |-> d.exc, rng |-> d.rng, mean |-> NaNR]
             ELSE MeanReplicateFrom(list, alpha, i + 1, d.rng,
                                    IF IsNaNR(values) \/ IsNaNR(d.sum) THEN NaNR
                                    ELSE RAdd(values, d.sum),
                                    count + d.nn)

(* the loop of line 593 *)
RECURSIVE MeanReplicates(_, _, _, _, _, _)
MeanReplicates(list, alpha, simulations, g, i, simulation_results) ==
    IF i > simulations
    THEN [exc |-> "none", rng |-> g, results |-> simulation_results]
    ELSE LET rep == MeanReplicateFrom(list, alpha, 1, g, R(0), 0)
         IN  IF rep.exc # "none"
             THEN [exc |-> rep.exc, rng |-> rep.rng, results |-> simulation_results]
             ELSE MeanReplicates(list, alpha, simulations, rep.rng, i + 1,
                                 Append(simulation_results, rep.mean))

(* lines 623-629 *)
AggregateMean(simulation_results, a) ==
    IF \E i \in 1..Len(simulation_results) : IsNaNR(simulation_results[i])
    THEN Returned("mean", a, NaNR, Const(NaNR), {})
    ELSE Returned("mean", a, MeanR(simulation_results),
                  Const(Spread(simulation_results)), {})

MeanRaise(list, a, exc, g) ==
    [list |-> list, rng |-> g, out |-> Raised("mean", a, exc, {})]

MeanResult(list, a, run) ==
    IF run.exc # "none" THEN MeanRaise(list, a, run.exc, run.rng)
    ELSE [list |-> list, rng |-> run.rng, out |-> AggregateMean(run.results, a)]

(* lines 593-629; a bin without 'moe' raises KeyError at line 599 *)
MeanWithAlpha(list, a, g, alpha) ==
    IF alpha.k = "TypeError" THEN MeanRaise(list, a, "TypeError", g)
    ELSE IF \E i \in 1..Len(list) : ~Has(list[i].moe)
    THEN MeanRaise(list, a, "KeyError", g)
    ELSE MeanResult(list, a,
                    MeanReplicates(list, alpha, a.simulations, g, 1, <<>>))

(* lines 585-590 *)
MeanAfterSort(sorted, a, g) ==
    IF ~sorted.ok THEN MeanRaise(sorted.list, a, "TypeError", g)
    ELSE IF a.pareto /\ Len(sorted.list) < 2
    THEN MeanRaise(sorted.list, a, "IndexError", g)
    ELSE MeanWithAlpha(sorted.list, a, g,
                       IF a.pareto THEN AlphaHat(sorted.list) ELSE Uniform)

approximate_mean(range_list0, a, g) ==
    MeanAfterSort(SortByMin(range_list0), a, g)

--------------------------------------------------------------------------
(* The primitives as a state machine: a caller holds some pairs and      *)
(* applies one primitive to them.                                        *)

MaxPairs == 3
MaxVal == 1
MaxMoe == 2

PairSet == (-MaxVal..MaxVal) \X (0..MaxMoe)

PairSeqs == UNION {[1..k -> PairSet] : k \in 1..MaxPairs}

Idle ==
    /\ range_list = <<>>
    /\ submitted = <<>>
    /\ rng = [seed |-> 0, pos |-> 0]
    /\ result = NoCall
    /\ prev = NoCall
    /\ calls = 0
    /\ params = None
    /\ seeded = FALSE

InitPrim ==
    /\ pairs \in PairSeqs
    /\ Idle

Finish(outcome) ==
    /\ calls = 0
    /\ result' = outcome
    /\ prev' = result
    /\ calls' = calls + 1
    /\ UNCHANGED <<pairs, range_list, submitted, rng, params, seeded>>

CallSum ==
    /\ Len(pairs) >= 1
    /\ Finish(approximate_sum(pairs))

CallProportion ==
    /\ Len(pairs) = 2
    /\ Finish(approximate_proportion(pairs[1], pairs[2]))

CallRatio ==
    /\ Len(pairs) = 2
    /\ Finish(approximate_ratio(pairs[1], pairs[2]))

CallProduct ==
    /\ Len(pairs) = 2
    /\ Finish(approximate_product(pairs[1], pairs[2]))

CallPercentChange ==
    /\ Len(pairs) = 2
    /\ Finish(approximate_percentchange(pairs[1], pairs[2]))

NextPrim ==
    \/ CallSum
    \/ CallProportion
    \/ CallRatio
    \/ CallProduct
    \/ CallPercentChange

SpecPrim == InitPrim /\ [][NextPrim]_vars

--------------------------------------------------------------------------
(* The binned estimators as a state machine: a caller builds a list of  *)
(* bins, in any order, and calls approximate_median and approximate_mean *)
(* on that same list object, seeding numpy's random source at will.      *)

MaxBins == 2
MaxN == 2
MaxBinMoe == 1
MaxCalls == 2
MaxSims == 2
MaxSeed == 2

(* the bins partition the values at Edges: bin j is [Edges[j], Edges[j+1]-1] *)
Edges == <<5, 10, 15, 25, 50, 60>>

OpenKinds == {"closed", "none_low", "none_high", "nan_low", "nan_high"}

LowBound(open) ==
    IF open = "none_low" THEN NoneB
    ELSE IF open = "nan_low" THEN NaNB
    ELSE Num(Edges[1])

HighBound(open, k) ==
    IF open = "none_high" THEN NoneB
    ELSE IF open = "nan_high" THEN NaNB
    ELSE Num(Edges[k + 1] - 1)

Partition(k, counts, moe, open) ==
    [j \in 1..k |->
        Bin(IF j = 1 THEN LowBound(open) ELSE Num(Edges[j]),
            IF j = k THEN HighBound(open, k) ELSE Num(Edges[j + 1] - 1),
            counts[j], moe)]

Perms(k) == {f \in [1..k -> 1..k] : \A i, j \in 1..k : f[i] = f[j] => i = j}

Permuted(list, f) == [i \in 1..Len(list) |-> list[f[i]]]

MoeChoices == {Absent} \cup {<<m>> : m \in 1..MaxBinMoe}

InputLists ==
    UNION {{Permuted(Partition(k, counts, moe, open), f) :
               counts \in [1..k -> 0..MaxN], moe \in MoeChoices,
               open \in OpenKinds, f \in Perms(k)} : k \in 1..MaxBins}

DesignFactors == {R(1), <<3, 2>>}
SamplingPercentages == {None, R(25), R(50), R(100)}

HasOpenBound(list) ==
    \E i \in 1..Len(list) : ~IsNum(list[i].min) \/ ~IsNum(list[i].max)

(* jam values are passed for lists with an open bin *)
JamChoices(list) == IF HasOpenBound(list) THEN {<<>>, <<1>>, <<1, 99>>} ELSE {<<>>}

(* the arguments that matter to the list's path: design factor and      *)
(* sampling percentage without 'moe'; simulations, pareto and the seed  *)
(* with it                                                              *)
ParamChoices(list) ==
    IF Has(list[1].moe)
    THEN [design_factor : {R(1)}, sampling_percentage : {None},
          jam_values : JamChoices(list), simulations : 1..MaxSims,
          pareto : BOOLEAN, seed : 1..MaxSeed]
    ELSE [design_factor : DesignFactors, sampling_percentage : SamplingPercentages,
          jam_values : JamChoices(list), simulations : {1},
          pareto : {FALSE}, seed : {1}]

Init ==
    /\ pairs = <<>>
    /\ range_list \in InputLists
    /\ submitted = range_list
    /\ params \in ParamChoices(range_list)
    /\ rng = [seed |-> 0, pos |-> 0]
    /\ result = NoCall
    /\ prev = NoCall
    /\ calls = 0
    /\ seeded = FALSE

(* numpy.random.seed(s) *)
SeedKeepsPosition(g, s) == [seed |-> s, pos |-> g.pos]
Reseed(g, s) == [seed |-> s, pos |-> 0]

Seed ==
    /\ ~seeded
    /\ rng' = Reseed(rng, params.seed)
    /\ seeded' = TRUE
    /\ UNCHANGED <<pairs, range_list, submitted, result, prev, calls, params>>

Record(call) ==
    /\ submitted' = range_list
    /\ range_list' = call.list
    /\ rng' = call.rng
    /\ result' = [call.out EXCEPT !.args = [call.out.args EXCEPT !.rng = rng,
                                                             !.seeded = seeded]]
    /\ prev' = result
    /\ calls' = calls + 1
    /\ seeded' = FALSE
    /\ UNCHANGED <<pairs, params>>

CallMedian ==
    /\ calls < MaxCalls
    /\ Record(approximate_median(
               range_list,
               [design_factor |-> params.design_factor,
                sampling_percentage |-> params.sampling_percentage,
                jam_values |-> params.jam_values,
                simulations |-> params.simulations, rng |-> None,
                seeded |-> FALSE],
               rng))

CallMean ==
    /\ calls < MaxCalls
    /\ Has(range_list[1].moe)
    /\ Record(approximate_mean(
               range_list,
               [simulations |-> params.simulations, pareto |-> params.pareto,
                rng |-> None, seeded |-> FALSE],
               rng))

Next ==
    \/ Seed
    \/ CallMedian
    \/ CallMean

Spec == Init /\ [][Next]_vars

(* the callers whose bins carry no 'moe': the analytical path *)
InitAnalytical == Init /\ ~Has(range_list[1].moe)

NextAnalytical == CallMedian

SpecAnalytical == InitAnalytical /\ [][NextAnalytical]_vars

--------------------------------------------------------------------------
(* The aggregation step on its own: the replicate loop (lines 143-199,   *)
(* 593-621) has recorded numeric outcomes in simulation_results, and the *)
(* lines after the loop turn them into (estimate, margin of error).      *)
(* The outcomes are up to three runs of equal values, in any order, long *)
(* enough for the mean to fall outside the 5th..95th percentile range.   *)

MaxOutcomes == 21

OutcomeValues == {R(-1), R(0), <<5, 2>>}

Runs(a, x, b, y, c, z) ==
    [i \in 1..(a + b + c) |-> IF i <= a THEN x ELSE IF i <= a + b THEN y ELSE z]

OutcomeLists ==
    {Runs(a, x, b, y, c, z) :
        <<a, b, c>> \in {t \in (0..MaxOutcomes) \X (0..MaxOutcomes) \X (0..MaxOutcomes) :
                            t[1] + t[2] + t[3] \in 1..MaxOutcomes},
        <<x, y, z>> \in OutcomeValues \X OutcomeValues \X OutcomeValues}

InitAggregate ==
    /\ pairs = <<>>
    /\ range_list = <<>>
    /\ submitted = <<>>
    /\ rng = [seed |-> 0, pos |-> 0]
    /\ result = NoCall
    /\ prev = NoCall
    /\ calls = 0
    /\ seeded = FALSE
    /\ \E xs \in OutcomeLists :
          params = [simulation_results |-> xs, simulations |-> Len(xs),
                    jam_values |-> <<>>]

(* lines 200-218 *)
MedianAggregation ==
    /\ params.simulations >= 1
    /\ Finish(AggregateMedian([i \in 1..Len(params.simulation_results) |->
                                  ReplicateValue(params.simulation_results[i])],
                              params))

(* lines 623-629 *)
MeanAggregation ==
    /\ params.simulations >= 1
    /\ Finish(AggregateMean(params.simulation_results, params))

NextAggregate ==
    \/ MedianAggregation
    \/ MeanAggregation

SpecAggregate == InitAggregate /\ [][NextAggregate]_vars

--------------------------------------------------------------------------
(* The analytical path on longer lists: callers whose bins carry no      *)
(* 'moe', have finite bounds and come in ascending order, with counts    *)
(* that may be zero anywhere, so that the two probability points can lie *)
(* in different bins with empty bins between them.                       *)

MaxMarginBins == 4
MaxMarginN == 3

MarginLists ==
    UNION {{Partition(k, counts, Absent, "closed") :
               counts \in [1..k -> 0..MaxMarginN]} : k \in 1..MaxMarginBins}

MarginDesignFactors == {R(0), R(1), <<3, 2>>}
MarginSamplingPercentages == {R(25), R(50), R(80), R(100)}

InitMargin ==
    /\ pairs = <<>>
    /\ range_list \in MarginLists
    /\ submitted = range_list
    /\ params \in [design_factor : MarginDesignFactors,
                   sampling_percentage : MarginSamplingPercentages,
                   jam_values : {<<>>}, simulations : {1},
                   pareto : {FALSE}, seed : {1}]
    /\ rng = [seed |-> 0, pos |-> 0]
    /\ result = NoCall
    /\ prev = NoCall
    /\ calls = 0
    /\ seeded = FALSE

NextMargin == CallMedian

SpecMargin == InitMargin /\ [][NextMargin]_vars

--------------------------------------------------------------------------
(* Claims about the primitives *)

SumCalled == result.op = "sum" /\ result.kind = "return"

SqInts(s) == SumInts([i \in 1..Len(s) |-> s[i] * s[i]])

NonzeroSq(ps) == SqInts(MarginsOf(SelectSeq(ps, LAMBDA p : p[1] # 0)))

ZeroCount(ps) == Cardinality({i \in 1..Len(ps) : ps[i][1] = 0})

ZeroMargins(ps) == {ps[i][2] : i \in {j \in 1..Len(ps) : ps[j][1] = 0}}

LargestOf(S) == CHOOSE m \in S : \A x \in S : x <= m

(* C1: approximate_sum returns total = the sum of all values, and a    *)
(* margin of error whose square is the sum of the squared margins of   *)
(* the nonzero-valued pairs plus (a) the square of only the largest    *)
(* zero-valued margin when two or more values are 0, (b) the zero      *)
(* pair's squared margin when exactly one value is 0, (c) nothing      *)
(* otherwise.                                                          *)
C1_SumZeroCollapse ==
    SumCalled =>
        LET ps == result.args
            zeroPart ==
                IF ZeroCount(ps) = 0 THEN 0
                ELSE LET m == LargestOf(ZeroMargins(ps)) IN m * m
            onlyZero == IF ZeroCount(ps) = 1 THEN SqInts(MarginsOf(zeros(ps))) ELSE 0
        IN  /\ result.est = R(SumInts([i \in 1..Len(ps) |-> ps[i][1]]))
            /\ RootSign(result.moe) >= 0
            /\ RootSq(result.moe) = R(NonzeroSq(ps) + zeroPart)
            /\ ZeroCount(ps) = 1 => zeroPart = onlyZero

C1_Witness ==
    /\ SumCalled
    /\ ZeroCount(result.args) >= 2
    /\ Cardinality(ZeroMargins(result.args)) >= 2
    /\ NonzeroSq(result.args) > 0

ProportionCalled == result.op = "proportion"
RatioCalled == result.op = "ratio"

(* the sign of numerator_moe^2 - (numerator/denominator)^2 *           *)
(* denominator_moe^2, cleared of the division: for denominator # 0 it  *)
(* is the sign of nm^2 * d^2 - n^2 * dm^2                              *)
RadicandNegative(num, den) ==
    (num[2] * num[2]) * (den[1] * den[1]) < (num[1] * num[1]) * (den[2] * den[2])

(* C2: with a nonzero denominator value, approximate_proportion raises  *)
(* DataError exactly when the radicand                                  *)
(* numerator_moe^2 - (numerator/denominator)^2 * denominator_moe^2 is   *)
(* negative, and approximate_ratio on the same two pairs returns a      *)
(* result without raising.                                              *)
C2_ProportionVsRatio ==
    /\ ProportionCalled /\ result.args[2][1] # 0 =>
          LET num == result.args[1]
              den == result.args[2]
          IN  /\ RadicandNegative(num, den) =>
                    /\ result.kind = "DataError"
                    /\ approximate_ratio(num, den).kind = "return"
              /\ ~RadicandNegative(num, den) => result.kind = "return"
    /\ RatioCalled /\ result.args[2][1] # 0 => result.kind = "return"

C2_Witness ==
    /\ ProportionCalled
    /\ result.args[2][1] # 0
    /\ RadicandNegative(result.args[1], result.args[2])
    /\ result.kind = "DataError"

--------------------------------------------------------------------------
(* Claims about approximate_median's analytical path.  The bins of the  *)
(* submitted list are ranked by their lower bound, an open first bin    *)
(* below every other; the cumulative counts are those of that ranking.  *)

MedianCalled == result.op = "median"

AnalyticalCall == MedianCalled /\ ~Has(submitted[1].moe)

FiniteBounds(list) ==
    \A i \in 1..Len(list) : IsNum(list[i].min) /\ IsNum(list[i].max)

HasNaNBound(list) ==
    \E i \in 1..Len(list) : IsNaN(list[i].min) \/ IsNaN(list[i].max)

Rank(b) == IF IsNum(b.min) THEN b.min[2] ELSE -1

Total(list) == SumInts([j \in 1..Len(list) |-> list[j].n])

CountBelow(list, i) ==
    SumInts([j \in 1..Len(list) |->
                 IF Rank(list[j]) < Rank(list[i]) THEN list[j].n ELSE 0])

HoldsMidpoint(list, i) ==
    /\ 2 * CountBelow(list, i) <= Total(list)
    /\ Total(list) <= 2 * (CountBelow(list, i) + list[i].n)

MedianBin(list) ==
    CHOOSE i \in 1..Len(list) :
        /\ HoldsMidpoint(list, i)
        /\ \A j \in 1..Len(list) :
               HoldsMidpoint(list, j) => Rank(list[i]) <= Rank(list[j])

MedianBinClosed(list) ==
    IsNum(list[MedianBin(list)].min) /\ IsNum(list[MedianBin(list)].max)

(* M.min + ((n/2 - M.n_min) / M.n) * (M.max - M.min) *)
InterpolatedMedian(list) ==
    LET i == MedianBin(list)
        M == list[i]
    IN  RAdd(R(M.min[2]),
             RMul(Norm(Total(list) - 2 * CountBelow(list, i), 2 * M.n),
                  R(M.max[2] - M.min[2])))

(* C3: on the analytical path, with finite bounds, non-negative counts  *)
(* and a total n > 0, a returned median equals                          *)
(* M.min + ((n/2 - M.n_min) / M.n) * (M.max - M.min), where the bins    *)
(* are taken in ascending order of 'min', n_min is the cumulative count *)
(* below M, and M is the first bin whose cumulative range contains n/2. *)
C3_MedianInterpolation ==
    (/\ AnalyticalCall
     /\ FiniteBounds(submitted)
     /\ Total(submitted) > 0
     /\ result.kind = "return")
    => result.est = InterpolatedMedian(submitted)

C3_Witness ==
    /\ AnalyticalCall
    /\ FiniteBounds(submitted)
    /\ result.kind = "return"
    /\ Len(submitted) >= 2
    /\ submitted[1].min[2] > submitted[2].min[2]
    /\ CountBelow(submitted, MedianBin(submitted)) > 0
    /\ RLt(R(submitted[MedianBin(submitted)].min[2]), result.est)
    /\ RLt(result.est, R(submitted[MedianBin(submitted)].max[2]))

(* C4: when the first bin has min=None or the last bin has max=None and *)
(* the midpoint n/2 falls in that open bin, the call does not raise:    *)
(* without jam_values it emits JamValueMissingWarning and returns       *)
(* (None, None); with jam_values it emits JamValueResultWarning and     *)
(* returns jam_values[0] (open first bin) or jam_values[1] (open last   *)
(* bin) as the median.                                                  *)
C4_JamPolicyForNone ==
    (/\ AnalyticalCall
     /\ Total(submitted) > 0
     /\ \/ IsNone(submitted[MedianBin(submitted)].min)
        \/ IsNone(submitted[MedianBin(submitted)].max)
     /\ Len(result.args.jam_values) \in {0, 2})
    => LET M == submitted[MedianBin(submitted)]
           jam == result.args.jam_values
       IN  /\ result.kind = "return"
           /\ jam = <<>> =>
                 /\ "JamValueMissingWarning" \in result.warnings
                 /\ result.est = None
                 /\ result.moe = None
           /\ jam # <<>> =>
                 /\ "JamValueResultWarning" \in result.warnings
                 /\ result.est = R(jam[IF IsNone(M.min) THEN 1 ELSE 2])

SamplingMissing ==
    AnalyticalCall /\ result.args.sampling_percentage = None

WithSampling(d, s) ==
    approximate_median(
        submitted,
        [result.args EXCEPT !.design_factor = d, !.sampling_percentage = s],
        result.args.rng).out

(* C5: on the analytical path, whenever sampling_percentage is None the *)
(* call emits SamplingPercentageWarning and returns (estimate, None),   *)
(* with the estimate it returns when a sampling percentage is given,    *)
(* for every design_factor; no DataError occurs.  Stated for lists      *)
(* whose unknown bounds are marked None, a positive total and a median  *)
(* bin that is not open.                                                *)
C5_SamplingMissing ==
    (/\ SamplingMissing
     /\ ~HasNaNBound(submitted)
     /\ Total(submitted) > 0
     /\ MedianBinClosed(submitted))
    => /\ result.kind = "return"
       /\ "SamplingPercentageWarning" \in result.warnings
       /\ result.moe = None
       /\ result.est # None
       /\ \A d \in DesignFactors, s \in SamplingPercentages \ {None} :
              WithSampling(d, s).kind = "return"
                  => WithSampling(d, s).est = result.est

DefaultDesignFactor ==
    /\ AnalyticalCall
    /\ result.args.sampling_percentage # None
    /\ result.args.design_factor = R(1)

(* design_factor^2 * (100 - pct) > n * pct *)
SmallSample(n, design_factor, pct) ==
    RLt(RMul(R(n), pct), RMul(RSq(design_factor), RSub(R(100), pct)))

C7_DataErrorIffSmallSample ==
    (/\ AnalyticalCall
     /\ result.args.sampling_percentage # None
     /\ ~HasNaNBound(submitted)
     /\ Total(submitted) > 0
     /\ MedianBinClosed(submitted) \/ Len(result.args.jam_values) = 2)
    => (result.kind = "DataError"
            <=> SmallSample(Total(submitted), result.args.design_factor,
                            result.args.sampling_percentage))

--------------------------------------------------------------------------
(* Claims about the calls on the caller's list *)

MeanCalled == result.op = "mean"

Outcome(o) == <<o.kind, o.est, o.moe>>

DistinctFiniteMins(list) ==
    /\ \A i \in 1..Len(list) : IsNum(list[i].min)
    /\ \A i, j \in 1..Len(list) : list[i].min = list[j].min => i = j

MedianOf(list) == approximate_median(list, result.args, result.args.rng).out

MeanOf(list) == approximate_mean(list, result.args, result.args.rng).out

(* C8: for a list of bins with distinct finite lower bounds, the        *)
(* analytical approximate_median has the same outcome for every         *)
(* permutation of the submitted list, and so has approximate_mean when  *)
(* the random source is in the same state before each call.             *)
C8_OrderIndependence ==
    DistinctFiniteMins(submitted) =>
        /\ AnalyticalCall =>
              \A f \in Perms(Len(submitted)) :
                  Outcome(MedianOf(Permuted(submitted, f))) = Outcome(result)
        /\ MeanCalled =>
              \A f \in Perms(Len(submitted)) :
                  Outcome(MeanOf(Permuted(submitted, f))) = Outcome(result)

C8_Witness ==
    /\ MeanCalled
    /\ result.args.seeded
    /\ result.kind = "return"
    /\ ~IsNaNR(result.est)
    /\ Len(submitted) >= 2
    /\ submitted[1].min[2] > submitted[2].min[2]
    /\ submitted[1].n # submitted[2].n

(* C9: after any call of approximate_median or approximate_mean the     *)
(* caller's list has the same element order, and every bin the same     *)
(* keys and values, as before the call.                                 *)
C9_InputUnchanged ==
    MedianCalled \/ MeanCalled => range_list = submitted

(* the bins as the caller first wrote them: without the keys a call adds *)
Pristine(list) ==
    [i \in 1..Len(list) |->
        Bin(list[i].min, list[i].max, list[i].n, list[i].moe)]

(* C10: two calls of approximate_mean on the same bins with the same    *)
(* simulations and pareto arguments, each preceded by seeding the       *)
(* random source with the same seed, have the same outcome; and the     *)
(* outcome of a call is that of a call on the bins as first written,    *)
(* whatever earlier calls left in the list.                             *)
C10_SeededMeanRepeats ==
    /\ (/\ MeanCalled /\ result.args.seeded
        /\ prev.op = "mean" /\ prev.args.seeded)
       => Outcome(result) = Outcome(prev)
    /\ MeanCalled => Outcome(result) = Outcome(MeanOf(Pristine(submitted)))

C10_Witness ==
    /\ MeanCalled /\ result.args.seeded
    /\ prev.op = "mean" /\ prev.args.seeded
    /\ result.kind = "return"
    /\ ~IsNaNR(result.est)
    /\ result.args.pareto
    /\ result.args.simulations >= 2
    /\ result.moe # Const(R(0))

--------------------------------------------------------------------------
(* Further claims about the primitives *)

PercentChangeCalled == result.op = "percentchange"

(* C11: for an old pair with nonzero value, approximate_percentchange    *)
(* returns estimate = 100 * (new - old) / old and margin of error =      *)
(* 100 * approximate_ratio(new, old)[1], that is, 100 times the square   *)
(* root of (new_moe^2 + (new/old)^2 * old_moe^2) over old.               *)
C11_PercentChangeReusesRatio ==
    PercentChangeCalled /\ result.args[1][1] # 0 =>
        LET old == result.args[1]
            new == result.args[2]
        IN  /\ result.kind = "return"
            /\ result.est = Norm(100 * (new[1] - old[1]), old[1])
            /\ approximate_ratio(new, old).kind = "return"
            /\ result.moe = RootScale(R(100), approximate_ratio(new, old).moe)
            /\ RootSq(result.moe) =
                   Norm(10000 * ((new[2] * new[2]) * (old[1] * old[1])
                                 + (new[1] * new[1]) * (old[2] * old[2])),
                        (old[1] * old[1]) * (old[1] * old[1]))

C11_Witness ==
    /\ PercentChangeCalled
    /\ result.kind = "return"
    /\ result.args[1][1] # result.args[2][1]
    /\ result.args[2][1] # 0
    /\ result.args[1][2] # result.args[2][2]
    /\ result.args[1][2] > 0
    /\ result.args[2][2] > 0

PrimitiveReturned ==
    /\ result.op \in {"sum", "proportion", "ratio", "product", "percentchange"}
    /\ result.kind = "return"

(* C14: every pair returned by approximate_sum, _proportion, _ratio,     *)
(* _product and _percentchange has margin_of_error >= 0, for all input   *)
(* values (negative ones included) with non-negative input margins.      *)
C14_MarginNonNegative ==
    PrimitiveReturned => RootSign(result.moe) >= 0

--------------------------------------------------------------------------
(* Claims about approximate_median's simulation path.  The replicate    *)
(* outcomes of the latest call are those of the loop of line 144 run on *)
(* the submitted list from the random source's state before the call.   *)

SimulationCall == MedianCalled /\ Has(submitted[1].moe)

EntersLoop ==
    /\ SimulationCall
    /\ ReplaceNone(submitted).ok
    /\ SortByMin(submitted).ok

LoopRun ==
    Replicates(SortByMin(submitted).list, result.args, result.args.rng, 1, <<>>)

ReachedAggregation == EntersLoop /\ LoopRun.exc = "none"

IsJamValue(x) ==
    \E j \in 1..Len(result.args.jam_values) : x = R(result.args.jam_values[j])

SuppressedWith(warning) ==
    /\ result.kind = "return"
    /\ warning \in result.warnings
    /\ result.est = None
    /\ result.moe = None

(* C12: on the simulation path, if at least one replicate outcome is     *)
(* undefined the call warns JamValueMissingWarning and returns           *)
(* (None, None); otherwise, if at least one outcome equals a jam value,  *)
(* it warns JamValueResultMOEWarning and returns (None, None); a         *)
(* numeric result is returned only when each of the `simulations`        *)
(* outcomes is a value different from every jam value.                   *)
C12_SimulationAggregation ==
    ReachedAggregation =>
        LET outs == LoopRun.results
            undefined == \E i \in 1..Len(outs) : outs[i].k = "nan"
            jammed == \E i \in 1..Len(outs) : IsJamValue(outs[i].v)
        IN  /\ undefined => SuppressedWith("JamValueMissingWarning")
            /\ ~undefined /\ jammed => SuppressedWith("JamValueResultMOEWarning")
            /\ result.kind = "return" /\ result.est # None =>
                  /\ Len(outs) = result.args.simulations
                  /\ ~undefined
                  /\ ~jammed

C12_Witness ==
    /\ ReachedAggregation
    /\ result.args.simulations >= 2
    /\ \E i \in 1..Len(LoopRun.results) : LoopRun.results[i].k = "nan"
    /\ \E i \in 1..Len(LoopRun.results) : LoopRun.results[i].k = "value"
    /\ SuppressedWith("JamValueMissingWarning")

(* C13: a call of approximate_median whose non-empty jam_values lacks   *)
(* the entry the call needs (here a one-entry jam_values, so that the   *)
(* upper jam value is missing) raises InputError on either path and     *)
(* never another exception for that condition: in particular the lookup *)
(* of the missing entry never surfaces as IndexError.                   *)
C13_InsufficientJamRaisesInputError ==
    MedianCalled /\ Len(result.args.jam_values) = 1 =>
        result.kind # "IndexError"

(* C15: on the simulation path every replicate records exactly one      *)
(* outcome and none raises, whatever the perturbed counts are (zero and *)
(* negative draws included): the loop ends without an exception and     *)
(* aggregation is reached with exactly `simulations` outcomes.  Taken   *)
(* on lists with finite bounds, where no jam value is ever looked up.   *)
C15_ReplicatesNeverRaise ==
    EntersLoop /\ FiniteBounds(submitted) =>
        /\ LoopRun.exc = "none"
        /\ Len(LoopRun.results) = result.args.simulations
        /\ result.kind = "return"

--------------------------------------------------------------------------
(* Claims about approximate_mean.                                       *)

(* C16: every perturbed bin count of approximate_mean is clamped to be  *)
(* >= 0 before values are drawn, the last bin included and in both      *)
(* modes, so a negative count never reaches the value-drawing step:     *)
(* with finite bounds and pareto=False, where a negative size is the    *)
(* only cause of ValueError, the call never raises ValueError.          *)
C16_MeanCountsClamped ==
    MeanCalled /\ ~result.args.pareto /\ FiniteBounds(submitted) =>
        result.kind # "ValueError"

--------------------------------------------------------------------------
(* Claims about the aggregation of replicate outcomes.                  *)

Aggregated == result.op \in {"median", "mean"} /\ result.args = params

RAbs(x) == IF x[1] < 0 THEN RNeg(x) ELSE x

Q05 == Quantile(params.simulation_results, Norm(5, 100))

Q95 == Quantile(params.simulation_results, Norm(95, 100))

(* C17: for a non-empty list of numeric replicate outcomes the          *)
(* simulation paths return the arithmetic mean as the estimate and      *)
(* max(|q95 - estimate|, |estimate - q05|) as the margin of error,      *)
(* where q05 <= q95 are the 5th and 95th percentiles; the margin is     *)
(* never negative, also when the mean lies outside [q05, q95].          *)
C17_MarginIsLargestAbsoluteSpread ==
    Aggregated =>
        LET estimate == MeanR(params.simulation_results) IN
        /\ result.kind = "return"
        /\ result.est = estimate
        /\ RLe(Q05, Q95)
        /\ result.moe = Const(RMax(RAbs(RSub(Q95, estimate)),
                                   RAbs(RSub(estimate, Q05))))
        /\ result.moe[1][1] >= 0

C17_Witness ==
    /\ Aggregated
    /\ result.op = "mean"
    /\ RLt(Q95, MeanR(params.simulation_results))
    /\ result.moe = Const(RSub(MeanR(params.simulation_results), Q05))

--------------------------------------------------------------------------
(* Further claims about approximate_median's analytical path.           *)

RangesAssigned ==
    /\ AnalyticalCall
    /\ FiniteBounds(submitted)
    /\ Total(submitted) > 0
    /\ Len(range_list) = Len(submitted)
    /\ \A i \in 1..Len(range_list) :
           Has(range_list[i].n_min) /\ Has(range_list[i].n_max)

BinsHolding(p) ==
    {i \in 1..Len(range_list) : InRange(range_list[i], Const(p), R(0))}

(* C18: once the cumulative ranges are assigned from non-negative       *)
(* counts, every point of [0, n] on the count scale (taken at the half  *)
(* units, where midpoints and bin boundaries lie) is contained in the   *)
(* range of exactly one bin, so that locating a point involves no       *)
(* tie-break between neighbouring bins or with zero-count bins.         *)
C18_BinLocationUnique ==
    RangesAssigned =>
        \A k \in 0..(2 * Total(submitted)) :
            Cardinality(BinsHolding(Norm(k, 2))) = 1

--------------------------------------------------------------------------
(* Further claims about the replicates of approximate_median.           *)

(* the first replicate's perturbed list of the latest call *)
FirstPerturbed ==
    PerturbFrom(SortByMin(submitted).list, 1, 0, result.args.rng).list

PerturbedTotal ==
    SumInts([i \in 1..Len(FirstPerturbed) |-> FirstPerturbed[i].n_new[1]])

PerturbedMidpoint == Norm(PerturbedTotal, 2)

SingleReplicateReturned ==
    /\ EntersLoop
    /\ FiniteBounds(submitted)
    /\ result.args.simulations = 1
    /\ result.kind = "return"
    /\ result.est # None

(* C19: the midpoint a replicate locates and interpolates is the        *)
(* perturbed midpoint, half the sum of the replicate's perturbed        *)
(* counts, measured against the cumulative ranges of the same perturbed *)
(* counts, with the fraction divided by the located bin's perturbed     *)
(* count; seen on calls with one replicate, whose estimate is that      *)
(* replicate's outcome.                                                 *)
C19_ReplicateUsesPerturbedMidpoint ==
    SingleReplicateReturned =>
        LET mi == Locate(FirstPerturbed, Const(PerturbedMidpoint), R(0)) IN
        /\ mi # 0
        /\ FirstPerturbed[mi].n_new[1] # 0
        /\ result.est =
               RAdd(R(FirstPerturbed[mi].min[2]),
                    RMul(RDiv(RSub(PerturbedMidpoint, R(FirstPerturbed[mi].n_min[1])),
                              R(FirstPerturbed[mi].n_new[1])),
                         R(FirstPerturbed[mi].max[2] - FirstPerturbed[mi].min[2])))

(* C20: on the analytical path, for finite bounds, non-negative counts  *)
(* with zero-count bins anywhere, a positive total and a sampling       *)
(* percentage in (0, 100], approximate_median returns or raises         *)
(* DataError: the midpoint bin is found and no bin whose count divides  *)
(* is empty, so no division by zero and no lookup failure escapes.      *)
C20_AnalyticalReturnsOrDataError ==
    /\ AnalyticalCall
    /\ FiniteBounds(submitted)
    /\ Total(submitted) > 0
    /\ result.args.sampling_percentage # None
    => result.kind \in {"return", "DataError"}

--------------------------------------------------------------------------
(* Claims about the analytical margin of error.                         *)

NumericMargin ==
    /\ AnalyticalCall
    /\ FiniteBounds(submitted)
    /\ result.kind = "return"
    /\ result.moe # None

(* sigma^2 of the latest call, its standard error and the bins that the *)
(* two probability points were located in (lines 277-302)               *)
MarginT2 == SamplingTerm(Total(submitted), result.args.sampling_percentage)

MarginStandardError ==
    IF RIsZero(MarginT2) THEN Const(R(0))
    ELSE <<R(0), RMul(result.args.design_factor, Norm(1, 2))>>

LowerBin ==
    Locate(range_list,
           SMulR(SSub(Const(Norm(1, 2)), MarginStandardError), R(Total(submitted))),
           MarginT2)

UpperBin ==
    Locate(range_list,
           SMulR(SAdd(Const(Norm(1, 2)), MarginStandardError), R(Total(submitted))),
           MarginT2)

(* upper_bound - lower_bound, recovered from the margin of error       *)
(* 1.645 * 0.5 * (upper_bound - lower_bound) of lines 331-334; it has   *)
(* the margin's sign                                                    *)
BoundsGap == SMulR(result.moe, Norm(400, 329))

(* C21: on the analytical path, for bins with finite bounds in          *)
(* ascending order, non-negative counts and design_factor >= 0, a       *)
(* numeric margin of error is >= 0: the interpolated upper bound is     *)
(* never below the lower bound, also when the two probability points    *)
(* fall in different bins, across zero-count bins, or in the last bin.  *)
C21_AnalyticalMarginNonNegative ==
    NumericMargin => SSign(BoundsGap, MarginT2) >= 0

(* the two points in different bins with an empty bin between them, the *)
(* upper one in the last bin                                            *)
C21_Witness ==
    /\ NumericMargin
    /\ UpperBin = Len(range_list)
    /\ \E j \in 1..Len(range_list) :
           LowerBin < j /\ j < UpperBin /\ range_list[j].n = 0
    /\ SSign(BoundsGap, MarginT2) > 0

--------------------------------------------------------------------------
(* Claims about successive calls on one list object.                    *)

NoNoneBound(list) ==
    \A i \in 1..Len(list) : ~HasNoneValue(list[i])

RepeatedAnalytical == AnalyticalCall /\ prev.op = "median"

(* C22: successive calls on the same caller-owned list object give the  *)
(* result of a call on a fresh copy of the list: the analytical         *)
(* approximate_median returns the same every time, although earlier     *)
(* calls sorted the list in place and left fields on its bins, and      *)
(* approximate_mean followed by approximate_median, or the other way    *)
(* round, give each the result of a fresh copy when the random source   *)
(* is seeded identically.                                               *)
C22_SuccessiveCallsAgree ==
    /\ RepeatedAnalytical => Outcome(result) = Outcome(prev)
    /\ AnalyticalCall => Outcome(result) = Outcome(MedianOf(Pristine(submitted)))
    /\ MedianCalled /\ prev.op = "mean" /\ result.args.seeded =>
           Outcome(result) = Outcome(MedianOf(Pristine(submitted)))
    /\ MeanCalled /\ prev.op = "median" /\ result.args.seeded =>
           Outcome(result) = Outcome(MeanOf(Pristine(submitted)))

=============================================================================
